---- MODULE Spec2Model ----
(***************************************************************************)
(* Model of the timecard application (package timecard): the two gates     *)
(* (appHandler.ServeHTTP, apiHandler.ServeHTTP), the four registered       *)
(* handlers and the datastore queries and inserts they issue.              *)
(*                                                                         *)
(* One action is one HTTP request served from start to finish.  The        *)
(* datastore holds two record kinds, Punch and User, both under one fixed  *)
(* parent key.  Entities carry store-generated keys that the program never *)
(* reads, so each kind is kept as a bag (multiset) of field values.        *)
(* A query ordered by a field returns entities with equal field values in  *)
(* key order; as the keys are chosen by the store, the order among such    *)
(* ties is an input of the request (tie).                                  *)
(*                                                                         *)
(* time.Time values and user names are modelled by naturals that stand for *)
(* their rank in the order the datastore sorts them by.                    *)
(***************************************************************************)
EXTENDS Integers, Sequences, FiniteSets, Bags, TLC

VARIABLES
    punches,   \* datastore, kind "Punch": bag of Punch records
    users,     \* datastore, kind "User": bag of User records
    created,   \* history: bag of the User records successful POSTs have put
    req,       \* the request served last
    env,       \* what the platform answered while it was served
    resp,      \* the response as the client received it
    log,       \* what the request logged with c.Errorf
    ret        \* whether the gate called the wrapped handler, and its error

vars == <<punches, users, created, req, env, resp, log, ret>>

----------------------------------------------------------------------------
(* Bounds of the model *)

MaxPunches == 11
MaxUsers == 3
MaxName == 2
GateMaxPunches == 1
GateMaxUsers == 1
TicksPerMinute == 2

(* Program constants *)

PunchLimit == 10
StatusFound == 302
StatusBadRequest == 400
StatusInternalServerError == 500

----------------------------------------------------------------------------
(* Input domains *)

Nobody == "nobody"
Emails == {"alice@example.com"}
Methods == {"GET", "POST", "PUT"}
Times == {1, 2}
Names == 1..MaxName
PunchTypes == {"arrival", "leave"}
FormEnabledValues == {"", "true", "0", "notabool"}

RootPath == "/"
MyArrivalsPath == "/my/arrivals"
MyLeavesPath == "/my/leaves"
ApiAdminUsersPath == "/api/admin/users"
NoPath == "none"

HtmlPaths == {RootPath, MyArrivalsPath, MyLeavesPath}
Paths == HtmlPaths \cup {ApiAdminUsersPath}

----------------------------------------------------------------------------
(* Records *)

Punch(puncher, type, time) == [Puncher |-> puncher, Type |-> type, Time |-> time]

User(email, name, enabled) == [Email |-> email, Name |-> name, Enabled |-> enabled]

appError(cause, message, code) == [Error |-> cause, Message |-> message, Code |-> code]

NoError == [Error |-> "", Message |-> "", Code |-> 0]

----------------------------------------------------------------------------
(* http.ResponseWriter: the status line and headers go out with the first  *)
(* WriteHeader or Write; later header changes and WriteHeader calls do not *)
(* reach the client.  The body is the sequence of parts written.           *)

NewResponse ==
    [wroteHeader |-> FALSE, status |-> 0, location |-> "",
     contentType |-> "", body |-> <<>>]

WriteHeader(w, code) ==
    IF w.wroteHeader THEN w
    ELSE [w EXCEPT !.wroteHeader = TRUE, !.status = code]

SetLocation(w, url) ==
    IF w.wroteHeader THEN w ELSE [w EXCEPT !.location = url]

SetContentType(w, ct) ==
    IF w.wroteHeader THEN w ELSE [w EXCEPT !.contentType = ct]

Write(w, part) ==
    LET w1 == WriteHeader(w, 200)
    IN  [w1 EXCEPT !.body = Append(@, part)]

\* a handler that returns without writing gets the default status
Finish(w) == WriteHeader(w, 200)

TextPart(msg) == [kind |-> "text", text |-> msg]

HttpError(w, msg, code) ==
    Write(WriteHeader(SetContentType(w, "text/plain; charset=utf-8"), code),
          TextPart(msg))

----------------------------------------------------------------------------
(* Platform services: appengine/user and appengine/datastore *)

\* user.LoginURL(c, dest): the platform's login page, continuing to dest
LoginURL(dest) ==
    CASE dest = RootPath -> "/_ah/login?continue=/"
      [] dest = MyArrivalsPath -> "/_ah/login?continue=/my/arrivals"
      [] dest = MyLeavesPath -> "/_ah/login?continue=/my/leaves"
      [] dest = ApiAdminUsersPath -> "/_ah/login?continue=/api/admin/users"

\* datastore.Put with an incomplete key: a new entity each time
Put(store, e) == store (+) SetToBag({e})

\* position of a punch in the index on Time; among equal times the keys
\* decide, and tie names the type whose keys come first
PunchRank(p, tie) == 2 * p.Time + (IF p.Type = tie THEN 0 ELSE 1)

\* position of a user in the index on Name; among equal names the keys
\* decide, and tie names the Enabled value whose keys come first
UserRank(u, tie) == 2 * u.Name + (IF u.Enabled = tie THEN 0 ELSE 1)

\* store less every copy of e
Without(store, e) == [x \in BagToSet(store) \ {e} |-> store[x]]

\* n copies of e
Copies(e, n) == [i \in 1..n |-> e]

\* the entities of store in index order: lowest rank first, an entity
\* stored several times as often as it is stored
RECURSIVE OrderByTime(_, _)
OrderByTime(store, tie) ==
    IF BagToSet(store) = {} THEN <<>>
    ELSE LET first == CHOOSE p \in BagToSet(store) :
                         \A q \in BagToSet(store) : PunchRank(p, tie) <= PunchRank(q, tie)
             n == CopiesIn(first, store)
         IN  Copies(first, n) \o OrderByTime(Without(store, first), tie)

RECURSIVE OrderByName(_, _)
OrderByName(store, tie) ==
    IF BagToSet(store) = {} THEN <<>>
    ELSE LET first == CHOOSE u \in BagToSet(store) :
                         \A v \in BagToSet(store) : UserRank(u, tie) <= UserRank(v, tie)
             n == CopiesIn(first, store)
         IN  Copies(first, n) \o OrderByName(Without(store, first), tie)

Limit(s, n) == SubSeq(s, 1, IF Len(s) < n THEN Len(s) ELSE n)

Reverse(s) == [i \in 1..Len(s) |-> s[Len(s) + 1 - i]]

\* mutant: Order("-Time")
QueryPunches_Descending(store, tie) == Limit(Reverse(OrderByTime(store, tie)), PunchLimit)

\* NewQuery("Punch").Ancestor(punchKey(c)).Order("Time").Limit(10)
QueryPunches(store, tie) == Limit(OrderByTime(store, tie), PunchLimit)

\* mutant: Order("-Name")
QueryUsers_Descending(store, tie) == Reverse(OrderByName(store, tie))

\* NewQuery("User").Ancestor(punchKey(c)).Order("Name")
QueryUsers(store, tie) == OrderByName(store, tie)

----------------------------------------------------------------------------
(* Responses *)

\* t.Format("2006-01-02 15:04"): the time to the minute, seconds dropped
formatDateTime(t) == t \div TicksPerMinute

\* <li>{{.Type}} {{formatDateTime .Time}}</li>
ListItem(p) == [Type |-> p.Type, Time |-> formatDateTime(p.Time)]

\* the page rootTemplate renders
PagePart(u, list) ==
    [kind |-> "html", user |-> u,
     items |-> [i \in 1..Len(list) |-> ListItem(list[i])]]

jsonUser(email, name, enabled) == [email |-> email, name |-> name, enabled |-> enabled]

\* encoder.Encode(jsonData): {"users": [...]}, {"user": {...}} or null;
\* a nil slice under "users" encodes as null
JsonPart(data) == [kind |-> "json", data |-> data]

JsonNull == [key |-> "null", val |-> <<>>, null |-> TRUE]

\* mutant: the Location header set after the status line went out
redirect_HeaderAfterStatus(w, url) == SetLocation(WriteHeader(w, StatusFound), url)

redirect(w, url) == WriteHeader(SetLocation(w, url), StatusFound)

handleAppError(w, e) == HttpError(w, e.Message, e.Code)

\* an Encode that fails has written nothing
writeJsonResponse(w, jsonData, encodeOK) ==
    LET w1 == SetContentType(w, "application/json")
    IN  IF encodeOK
        THEN [w |-> Write(w1, JsonPart(jsonData)), ok |-> TRUE]
        ELSE [w |-> w1, ok |-> FALSE]

----------------------------------------------------------------------------
(* Handlers.  Each takes the response writer and what it reads, and        *)
(* returns the writer, the store it leaves and the *appError it returns.   *)

FetchPunchesMessage == "Failed to fetch punches data from the datastore"
ExecuteTemplateMessage == "Failed to execute the root template"
PutPunchMessage == "Failed to put a punch data to the datastore"
FetchUsersMessage == "Failed to fetch users data from the datastore"
PutUserMessage == "Failed to put a user data to the datastore"
ParseEnabledMessage == "Failed to parse the \"enabled\" parameter as a boolean value"
UnsupportedMethodMessage == "Unsupported http method"
LoginNeededMessage == "login needed"
LoginURLErrorMessage == "user: LoginURL failed"
EncodeErrorMessage == "json: encode failed"

\* an Execute that fails has written nothing
rootHandler(w, u, store, getOK, tie, renderOK) ==
    IF ~getOK
    THEN [w |-> w, store |-> store,
          err |-> appError("datastore: GetAll failed", FetchPunchesMessage,
                           StatusInternalServerError)]
    ELSE LET list == QueryPunches(store, tie)
         IN  IF ~renderOK
             THEN [w |-> w, store |-> store,
                   err |-> appError("template: Execute failed", ExecuteTemplateMessage,
                                    StatusInternalServerError)]
             ELSE [w |-> Write(w, PagePart(u, list)), store |-> store, err |-> NoError]

createPunch(store, u, punchType, now, putOK) ==
    IF ~putOK
    THEN [store |-> store,
          err |-> appError("datastore: Put failed", PutPunchMessage,
                           StatusInternalServerError)]
    ELSE [store |-> Put(store, Punch(u, punchType, now)), err |-> NoError]

\* mutant: the method is not looked at
myArrivalsHandler_AnyMethod(w, method, u, store, now, putOK) ==
    LET r == createPunch(store, u, "arrival", now, putOK)
    IN  IF r.err # NoError
        THEN [w |-> w, store |-> r.store, err |-> r.err]
        ELSE [w |-> redirect(w, "/"), store |-> r.store, err |-> NoError]

myArrivalsHandler(w, method, u, store, now, putOK) ==
    IF method = "POST"
    THEN LET r == createPunch(store, u, "arrival", now, putOK)
         IN  IF r.err # NoError
             THEN [w |-> w, store |-> r.store, err |-> r.err]
             ELSE [w |-> redirect(w, "/"), store |-> r.store, err |-> NoError]
    ELSE [w |-> w, store |-> store, err |-> NoError]

myLeavesHandler(w, method, u, store, now, putOK) ==
    IF method = "POST"
    THEN LET r == createPunch(store, u, "leave", now, putOK)
         IN  IF r.err # NoError
             THEN [w |-> w, store |-> r.store, err |-> r.err]
             ELSE [w |-> redirect(w, "/"), store |-> r.store, err |-> NoError]
    ELSE [w |-> w, store |-> store, err |-> NoError]

\* strconv.ParseBool
ParseBool(str) ==
    CASE str \in {"1", "t", "T", "TRUE", "true", "True"} -> [value |-> TRUE, ok |-> TRUE]
      [] str \in {"0", "f", "F", "FALSE", "false", "False"} -> [value |-> FALSE, ok |-> TRUE]
      [] OTHER -> [value |-> FALSE, ok |-> FALSE]

\* mutant: a value that does not parse falls back to the default
getFormBoolValue_IgnoreParseError(strValue, defaultValue) ==
    IF strValue # "" /\ ParseBool(strValue).ok
    THEN [value |-> ParseBool(strValue).value, err |-> NoError]
    ELSE [value |-> defaultValue, err |-> NoError]

\* mutant: the default is dropped
getFormBoolValue_NoDefault(strValue, defaultValue) ==
    IF strValue # ""
    THEN IF ~ParseBool(strValue).ok
         THEN [value |-> FALSE,
               err |-> appError("strconv.ParseBool: invalid syntax", ParseEnabledMessage,
                                StatusBadRequest)]
         ELSE [value |-> ParseBool(strValue).value, err |-> NoError]
    ELSE [value |-> FALSE, err |-> NoError]

getFormBoolValue(strValue, defaultValue) ==
    IF strValue # ""
    THEN IF ~ParseBool(strValue).ok
         THEN [value |-> FALSE,
               err |-> appError("strconv.ParseBool: invalid syntax", ParseEnabledMessage,
                                StatusBadRequest)]
         ELSE [value |-> ParseBool(strValue).value, err |-> NoError]
    ELSE [value |-> defaultValue, err |-> NoError]

apiAdminUsersHandler(w, method, form, store, getOK, tie, putOK) ==
    IF method = "GET"
    THEN IF ~getOK
         THEN [w |-> w, store |-> store, data |-> JsonNull,
               err |-> appError("datastore: GetAll failed", FetchUsersMessage,
                                StatusInternalServerError)]
         ELSE LET found == QueryUsers(store, tie)
                  jsonUsers == [i \in 1..Len(found) |->
                                   jsonUser(found[i].Email, found[i].Name, found[i].Enabled)]
              IN  [w |-> w, store |-> store, err |-> NoError,
                   data |-> [key |-> "users", val |-> jsonUsers,
                             null |-> (jsonUsers = <<>>)]]
    ELSE IF method = "POST"
    THEN LET parsed == getFormBoolValue(form.enabled, TRUE)
             u == User(form.email, form.name, parsed.value)
         IN  IF parsed.err # NoError
             THEN [w |-> w, store |-> store, data |-> JsonNull, err |-> parsed.err]
             ELSE IF ~putOK
             THEN [w |-> w, store |-> store, data |-> JsonNull,
                   err |-> appError("datastore: Put failed", PutUserMessage,
                                    StatusInternalServerError)]
             ELSE [w |-> w, store |-> Put(store, u), err |-> NoError,
                   data |-> [key |-> "user",
                             val |-> <<jsonUser(form.email, u.Name, u.Enabled)>>,
                             null |-> FALSE]]
    ELSE [w |-> w, store |-> store, data |-> JsonNull,
          err |-> appError(UnsupportedMethodMessage, UnsupportedMethodMessage,
                           StatusBadRequest)]

----------------------------------------------------------------------------
(* Gates.  h is what the wrapped handler does when called with a fresh     *)
(* response writer; a gate that does not call it leaves h unused.          *)

\* mutant: no return after the redirect, the wrapped handler runs as well
appHandlerServeHTTP_NoReturn(u, dest, loginOK, store, h) ==
    IF u = Nobody /\ ~loginOK
    THEN [w |-> HttpError(NewResponse, LoginURLErrorMessage, StatusInternalServerError),
          log |-> <<LoginURLErrorMessage>>, store |-> store,
          called |-> FALSE, err |-> NoError]
    ELSE LET w0 == IF u = Nobody THEN redirect(NewResponse, LoginURL(dest)) ELSE NewResponse
             w1 == [h.w EXCEPT !.wroteHeader = w0.wroteHeader \/ @,
                               !.status = IF w0.wroteHeader THEN w0.status ELSE @,
                               !.location = IF w0.wroteHeader THEN w0.location ELSE @]
         IN  IF h.err # NoError
             THEN [w |-> handleAppError(w1, h.err), log |-> <<h.err.Error>>,
                   store |-> h.store, called |-> TRUE, err |-> h.err]
             ELSE [w |-> w1, log |-> <<>>, store |-> h.store,
                   called |-> TRUE, err |-> NoError]

appHandlerServeHTTP(u, dest, loginOK, store, h) ==
    IF u = Nobody
    THEN IF ~loginOK
         THEN [w |-> HttpError(NewResponse, LoginURLErrorMessage, StatusInternalServerError),
               log |-> <<LoginURLErrorMessage>>, store |-> store,
               called |-> FALSE, err |-> NoError]
         ELSE [w |-> redirect(NewResponse, LoginURL(dest)),
               log |-> <<>>, store |-> store, called |-> FALSE, err |-> NoError]
    ELSE IF h.err # NoError
         THEN [w |-> handleAppError(h.w, h.err), log |-> <<h.err.Error>>,
               store |-> h.store, called |-> TRUE, err |-> h.err]
         ELSE [w |-> h.w, log |-> <<>>, store |-> h.store,
               called |-> TRUE, err |-> NoError]

apiHandlerServeHTTP(u, store, encodeOK, h) ==
    IF u = Nobody
    THEN [w |-> HttpError(NewResponse, LoginNeededMessage, StatusInternalServerError),
          log |-> <<LoginNeededMessage>>, store |-> store,
          called |-> FALSE, err |-> NoError]
    ELSE LET w1 == IF h.err # NoError THEN handleAppError(h.w, h.err) ELSE h.w
             log1 == IF h.err # NoError THEN <<h.err.Error>> ELSE <<>>
             j == writeJsonResponse(w1, h.data, encodeOK)
         IN  IF ~j.ok
             THEN [w |-> HttpError(j.w, EncodeErrorMessage, StatusInternalServerError),
                   log |-> Append(log1, EncodeErrorMessage), store |-> h.store,
                   called |-> TRUE, err |-> h.err]
             ELSE [w |-> j.w, log |-> log1, store |-> h.store,
                   called |-> TRUE, err |-> h.err]

----------------------------------------------------------------------------
(* State machine: one action per route registered in init() *)

NoForm == [email |-> "", name |-> 0, enabled |-> ""]

Request(path, method, u, form) ==
    [path |-> path, method |-> method, user |-> u, form |-> form]

\* the platform's answers to a request; an answer the request never asked
\* for keeps the value given here
DefaultEnv ==
    [login |-> TRUE, now |-> 0, get |-> TRUE, put |-> TRUE,
     render |-> TRUE, encode |-> TRUE]

Init ==
    /\ punches = EmptyBag
    /\ users = EmptyBag
    /\ created = EmptyBag
    /\ req = Request(NoPath, "GET", Nobody, NoForm)
    /\ env = DefaultEnv
    /\ resp = NewResponse
    /\ log = <<>>
    /\ ret = [called |-> FALSE, err |-> NoError]

\* g is what the gate did with the request
Served(r, e, g) ==
    /\ req' = r
    /\ env' = e
    /\ resp' = Finish(g.w)
    /\ log' = g.log
    /\ ret' = [called |-> g.called, err |-> g.err]

\* http.Handle("/", appHandler(rootHandler))
RootRequest ==
    \E method \in Methods, u \in Emails \cup {Nobody} :
      \E loginOK \in (IF u = Nobody THEN BOOLEAN ELSE {TRUE}),
         getOK \in (IF u = Nobody THEN {TRUE} ELSE BOOLEAN) :
        \E tie \in (IF u # Nobody /\ getOK THEN PunchTypes ELSE {"arrival"}),
           renderOK \in (IF u # Nobody /\ getOK THEN BOOLEAN ELSE {TRUE}) :
          LET h == rootHandler(NewResponse, u, punches, getOK, tie, renderOK)
              g == appHandlerServeHTTP(u, RootPath, loginOK, punches, h)
          IN  /\ Served(Request(RootPath, method, u, NoForm),
                        [DefaultEnv EXCEPT !.login = loginOK, !.get = getOK,
                                           !.render = renderOK],
                        g)
              /\ punches' = g.store
              /\ UNCHANGED <<users, created>>

\* http.Handle("/my/arrivals", appHandler(myArrivalsHandler))
MyArrivalsRequest ==
    \E method \in Methods, u \in Emails \cup {Nobody} :
      \E loginOK \in (IF u = Nobody THEN BOOLEAN ELSE {TRUE}),
         putOK \in (IF u # Nobody /\ method = "POST" THEN BOOLEAN ELSE {TRUE}) :
        \E now \in (IF u # Nobody /\ method = "POST" THEN Times ELSE {0}) :
          LET h == myArrivalsHandler(NewResponse, method, u, punches, now, putOK)
              g == appHandlerServeHTTP(u, MyArrivalsPath, loginOK, punches, h)
          IN  /\ BagCardinality(g.store) <= MaxPunches
              /\ Served(Request(MyArrivalsPath, method, u, NoForm),
                        [DefaultEnv EXCEPT !.login = loginOK, !.now = now,
                                           !.put = putOK],
                        g)
              /\ punches' = g.store
              /\ UNCHANGED <<users, created>>

\* http.Handle("/my/leaves", appHandler(myLeavesHandler))
MyLeavesRequest ==
    \E method \in Methods, u \in Emails \cup {Nobody} :
      \E loginOK \in (IF u = Nobody THEN BOOLEAN ELSE {TRUE}),
         putOK \in (IF u # Nobody /\ method = "POST" THEN BOOLEAN ELSE {TRUE}) :
        \E now \in (IF u # Nobody /\ method = "POST" THEN Times ELSE {0}) :
          LET h == myLeavesHandler(NewResponse, method, u, punches, now, putOK)
              g == appHandlerServeHTTP(u, MyLeavesPath, loginOK, punches, h)
          IN  /\ BagCardinality(g.store) <= MaxPunches
              /\ Served(Request(MyLeavesPath, method, u, NoForm),
                        [DefaultEnv EXCEPT !.login = loginOK, !.now = now,
                                           !.put = putOK],
                        g)
              /\ punches' = g.store
              /\ UNCHANGED <<users, created>>

\* the form of a request to /api/admin/users; only a POST that passed the
\* gate reads it
AdminUserForms(method, u) ==
    IF u # Nobody /\ method = "POST"
    THEN [email : Emails, name : Names, enabled : FormEnabledValues]
    ELSE {NoForm}

\* http.Handle("/api/admin/users", apiHandler(apiAdminUsersHandler))
ApiAdminUsersRequest ==
    \E method \in Methods, u \in Emails \cup {Nobody} :
      \E form \in AdminUserForms(method, u),
         getOK \in (IF u # Nobody /\ method = "GET" THEN BOOLEAN ELSE {TRUE}),
         encodeOK \in (IF u # Nobody THEN BOOLEAN ELSE {TRUE}) :
        \E tie \in (IF u # Nobody /\ method = "GET" /\ getOK THEN BOOLEAN ELSE {TRUE}),
           putOK \in (IF u # Nobody /\ method = "POST" /\ ParseBool(form.enabled).ok
                      THEN BOOLEAN ELSE {TRUE}) :
          LET h == apiAdminUsersHandler(NewResponse, method, form, users, getOK, tie, putOK)
              g == apiHandlerServeHTTP(u, users, encodeOK, h)
              posted == g.called /\ method = "POST" /\ h.err = NoError
          IN  /\ BagCardinality(g.store) <= MaxUsers
              /\ Served(Request(ApiAdminUsersPath, method, u, form),
                        [DefaultEnv EXCEPT !.get = getOK, !.put = putOK,
                                           !.encode = encodeOK],
                        g)
              /\ users' = g.store
              /\ created' = IF posted
                            THEN created (+) SetToBag({User(h.data.val[1].email,
                                                            h.data.val[1].name,
                                                            h.data.val[1].enabled)})
                            ELSE created
              /\ UNCHANGED punches

\* requests through the HTML gate
NextHtml == RootRequest \/ MyArrivalsRequest \/ MyLeavesRequest

\* requests through the JSON API gate
NextApi == ApiAdminUsersRequest

\* The HTML handlers read and write only the Punch kind and the API handler
\* only the User kind.  SpecHtml and SpecApi follow one gate each over stores
\* of up to MaxPunches and MaxUsers entities; Spec follows both gates over
\* stores of up to GateMaxPunches and GateMaxUsers entities.
GateBound ==
    /\ BagCardinality(punches) <= GateMaxPunches
    /\ BagCardinality(users) <= GateMaxUsers

Next ==
    \/ RootRequest /\ GateBound'
    \/ MyArrivalsRequest /\ GateBound'
    \/ MyLeavesRequest /\ GateBound'
    \/ ApiAdminUsersRequest /\ GateBound'

Spec == Init /\ [][Next]_vars

SpecHtml == Init /\ [][NextHtml]_vars

SpecApi == Init /\ [][NextApi]_vars

----------------------------------------------------------------------------
(* Properties *)

PunchPaths == {MyArrivalsPath, MyLeavesPath}

PunchTypeOf(path) == IF path = MyArrivalsPath THEN "arrival" ELSE "leave"

Unauthenticated == req.path \in Paths /\ req.user = Nobody

Authenticated == req.path \in Paths /\ req.user # Nobody

\* the list of the page root renders when asked now, the store answering
\* with key order tie
RootWouldList(u, tie) ==
    rootHandler(NewResponse, u, punches, TRUE, tie, TRUE).w.body[1].items

\* the last request was an authenticated one to / and got the whole page
RootPageRendered ==
    /\ Authenticated
    /\ req.path = RootPath
    /\ env.get
    /\ env.render

RenderedItems == resp.body[1].items

OldestFirst(items) ==
    \A i \in 1..Len(items) : \A j \in i..Len(items) : items[i].Time <= items[j].Time

\* C1 (as stated): for every registered path and every method, a request
\* with no resolved identity, the login URL being available, gets a 302
\* whose Location header is the login URL.
C1_UnauthenticatedRedirectedOnEveryPath ==
    (Unauthenticated /\ env.login) =>
        (resp.status = StatusFound /\ resp.location = LoginURL(req.path))

\* C1 (amended): that holds on the paths served through the HTML gate
\* (/, /my/arrivals, /my/leaves); on /api/admin/users such a request gets a
\* 500 with the message "login needed" and no Location header.
C1_UnauthenticatedRedirectedByHtmlGate ==
    /\ (Unauthenticated /\ req.path \in HtmlPaths /\ env.login) =>
           (resp.status = StatusFound /\ resp.location = LoginURL(req.path))
    /\ (Unauthenticated /\ req.path = ApiAdminUsersPath) =>
           /\ resp.status = StatusInternalServerError
           /\ resp.location = ""
           /\ resp.body = <<TextPart(LoginNeededMessage)>>

C1_Witness ==
    /\ Unauthenticated
    /\ req.path = MyArrivalsPath
    /\ req.method = "POST"
    /\ env.login
    /\ resp.status = StatusFound
    /\ resp.location = LoginURL(MyArrivalsPath)

\* the last request was an authenticated POST to /my/arrivals that
\* succeeded: the punch was put and the client sent back to /
ArrivalPosted ==
    /\ Authenticated
    /\ req.path = MyArrivalsPath
    /\ req.method = "POST"
    /\ env.put
    /\ resp.status = StatusFound
    /\ resp.location = "/"

\* C2: after an authenticated POST to /my/arrivals succeeds, whatever the
\* store held before, the next authenticated fetch of / lists the item of
\* type "arrival" of the punch just created.
C2_PostedArrivalIsListed ==
    ArrivalPosted =>
        \A tie \in PunchTypes :
            \E i \in 1..Len(RootWouldList(req.user, tie)) :
                RootWouldList(req.user, tie)[i]
                    = ListItem(Punch(req.user, "arrival", env.now))

\* C3: the list an authenticated request to / renders, in every reachable
\* state, has at most 10 items, in non-decreasing timestamp order.
C3_AtMostTenOldestFirst ==
    /\ \A u \in Emails, tie \in PunchTypes :
           /\ Len(RootWouldList(u, tie)) <= PunchLimit
           /\ OldestFirst(RootWouldList(u, tie))
    /\ RootPageRendered =>
           /\ resp.status = 200
           /\ Len(resp.body) = 1
           /\ Len(RenderedItems) <= PunchLimit
           /\ OldestFirst(RenderedItems)

C3_Witness ==
    /\ RootPageRendered
    /\ BagCardinality(punches) > PunchLimit
    /\ Len(RenderedItems) = PunchLimit
    /\ RenderedItems[1].Time < RenderedItems[PunchLimit].Time

\* how many stored punches have a timestamp after minute m
StoredAfter(m) ==
    BagCardinality([p \in {q \in BagToSet(punches) : formatDateTime(q.Time) > m}
                       |-> punches[p]])

\* how many listed items have a timestamp after minute m
ListedAfter(items, m) == Cardinality({i \in 1..Len(items) : items[i].Time > m})

\* C4: the page rendered at / shows the last 10 punches: with more than 10
\* stored, the items listed are the 10 with the most recent timestamps
\* (every stored punch later than a listed one is listed too).
C4_ListsMostRecentTen ==
    (RootPageRendered /\ BagCardinality(punches) > PunchLimit) =>
        /\ Len(RenderedItems) = PunchLimit
        /\ \A i \in 1..Len(RenderedItems) :
               StoredAfter(RenderedItems[i].Time)
                   = ListedAfter(RenderedItems, RenderedItems[i].Time)

NotBooleans == {"notabool"}

\* C5: an authenticated POST to /api/admin/users whose "enabled" field is
\* non-empty and no boolean is answered 400 with the message naming the
\* "enabled" parameter, and the stored users stay as they were.
C5_MalformedEnabledRejected ==
    [][(/\ req'.path = ApiAdminUsersPath
        /\ req'.user # Nobody
        /\ req'.method = "POST"
        /\ req'.form.enabled \in NotBooleans)
       => (/\ resp'.status = StatusBadRequest
           /\ resp'.body[1] = TextPart(ParseEnabledMessage)
           /\ users' = users)]_vars

C5_Witness ==
    /\ Authenticated
    /\ req.path = ApiAdminUsersPath
    /\ req.method = "POST"
    /\ req.form.enabled = "notabool"
    /\ resp.status = StatusBadRequest
    /\ users # EmptyBag

\* the boolean an "enabled" form value stands for, the empty value included
ExpectedEnabled(str) ==
    CASE str = "" -> TRUE
      [] str = "true" -> TRUE
      [] str = "0" -> FALSE

\* C6: an authenticated POST to /api/admin/users without an "enabled" field
\* (or with an empty one) stores a user with enabled = true and echoes
\* enabled: true; a field that parses as a boolean is stored and echoed as
\* parsed.  (The datastore accepting the Put, the response being encoded.)
C6_EnabledDefaultsToTrue ==
    [][(/\ req'.path = ApiAdminUsersPath
        /\ req'.user # Nobody
        /\ req'.method = "POST"
        /\ req'.form.enabled \in {"", "true", "0"}
        /\ env'.put)
       => LET f == req'.form
              v == ExpectedEnabled(f.enabled)
          IN  /\ users' = users (+) SetToBag({User(f.email, f.name, v)})
              /\ env'.encode =>
                     /\ resp'.status = 200
                     /\ resp'.body = <<JsonPart([key |-> "user",
                                                 val |-> <<jsonUser(f.email, f.name, v)>>,
                                                 null |-> FALSE])>>]_vars

C6_Witness ==
    /\ Authenticated
    /\ req.path = ApiAdminUsersPath
    /\ req.method = "POST"
    /\ req.form.enabled = ""
    /\ env.put
    /\ env.encode
    /\ resp.status = 200
    /\ resp.body[1].data.val[1].enabled = TRUE
    /\ CopiesIn(User(req.form.email, req.form.name, TRUE), users) >= 1
    /\ \E u \in BagToSet(users) : ~u.Enabled

\* the last request was an authenticated GET on /api/admin/users that the
\* datastore and the encoder served
UsersListed ==
    /\ Authenticated
    /\ req.path = ApiAdminUsersPath
    /\ req.method = "GET"
    /\ env.get
    /\ env.encode

ListedUsers == resp.body[1].data.val

\* the users of a JSON list, as a bag of User records
BagOfListed(val) ==
    [u \in {User(val[i].email, val[i].name, val[i].enabled) : i \in 1..Len(val)}
        |-> Cardinality({i \in 1..Len(val) :
                            User(val[i].email, val[i].name, val[i].enabled) = u})]

\* C7: after any sequence of successful authenticated POSTs, an
\* authenticated GET on /api/admin/users returns every user those POSTs
\* created, duplicates included, in ascending order of name.
C7_AllUsersByName ==
    UsersListed =>
        /\ resp.status = 200
        /\ Len(resp.body) = 1
        /\ resp.body[1].kind = "json"
        /\ resp.body[1].data.key = "users"
        /\ BagOfListed(ListedUsers) = created
        /\ \A i \in 1..Len(ListedUsers) : \A j \in i..Len(ListedUsers) :
               ListedUsers[i].name <= ListedUsers[j].name

C7_Witness ==
    /\ UsersListed
    /\ Len(ListedUsers) >= 3
    /\ \E i, j \in 1..Len(ListedUsers) : i # j /\ ListedUsers[i] = ListedUsers[j]
    /\ \E i, j \in 1..Len(ListedUsers) : ListedUsers[i].name < ListedUsers[j].name

\* C8: an authenticated request to /my/arrivals or /my/leaves with a method
\* other than POST leaves the punch store as it was and is answered 200 with
\* no redirect; only a POST adds a punch, and it adds exactly one, of the
\* type of the endpoint.
C8_OnlyPostAddsOnePunch ==
    [][/\ (req'.path \in PunchPaths /\ req'.user # Nobody /\ req'.method # "POST")
          => (/\ punches' = punches
              /\ resp'.status = 200
              /\ resp'.location = ""
              /\ resp'.body = <<>>)
       /\ (punches' # punches)
          => (/\ req'.path \in PunchPaths
              /\ req'.user # Nobody
              /\ req'.method = "POST"
              /\ \E t \in Times :
                    punches' = punches (+) SetToBag({Punch(req'.user,
                                                           PunchTypeOf(req'.path), t)}))]_vars

C8_Witness ==
    /\ Authenticated
    /\ req.path = MyArrivalsPath
    /\ req.method = "GET"
    /\ resp.status = 200
    /\ resp.location = ""
    /\ punches # EmptyBag

\* C9: a handler error is terminal under both gates: once the wrapped
\* handler has returned an error, the response is the handler's message
\* with the handler's status code, and nothing is written after it.
C9_HandlerErrorIsTerminal ==
    (ret.called /\ ret.err # NoError) =>
        /\ resp.status = ret.err.Code
        /\ resp.body = <<TextPart(ret.err.Message)>>

\* C10: a request with no resolved identity never reaches the wrapped
\* handler, on any path or method, and leaves both stores as they were; the
\* HTML gate answers with the redirect, or 500 when there is no login URL,
\* the JSON API gate with 500 "login needed".
C10_UnauthenticatedNeverReachesHandler ==
    [][(req'.path \in Paths /\ req'.user = Nobody)
       => (/\ ~ret'.called
           /\ punches' = punches
           /\ users' = users
           /\ req'.path \in HtmlPaths =>
                  resp'.status = IF env'.login THEN StatusFound
                                 ELSE StatusInternalServerError
           /\ req'.path = ApiAdminUsersPath =>
                  /\ resp'.status = StatusInternalServerError
                  /\ resp'.body = <<TextPart(LoginNeededMessage)>>)]_vars

C10_Witness ==
    /\ Unauthenticated
    /\ req.path = MyLeavesPath
    /\ req.method = "POST"
    /\ ~ret.called
    /\ resp.status = StatusFound
    /\ punches # EmptyBag
    /\ users # EmptyBag

====
